---------------------------- MODULE Spec2Model ----------------------------
(***************************************************************************)
(* Model of the marketplace sniping bot: ItemSnipe (marketplace-bot.py)    *)
(* and the MarketAPI client it drives (MarketAPI.py).                      *)
(*                                                                         *)
(* A worker is one ItemSnipe instance running ItemSnipe.run.  Its position *)
(* (pc) advances from one blocking network call to the next; the remote    *)
(* marketplace, the webhook and the clock are the environment, and every   *)
(* response they can give is an input drawn with \E.                       *)
(***************************************************************************)
EXTENDS Integers, Sequences, FiniteSets, TLC

(***************************************************************************)
(* Bounds of the model.                                                    *)
(***************************************************************************)
MaxTime == 2          \* the clock time.time() runs over 0..MaxTime
MaxChecks == 2        \* no new poll cycle starts once checks reached it
MaxSniped == 2        \* no new poll cycle starts once sniped reached it
MaxPrice == 4         \* quoted prices run over -1..MaxPrice
MaxRecursion == 3     \* nested purchaseItem frames the interpreter allows
MaxThreadPolls == 1   \* poll cycles each of two concurrent workers runs
MaxItems == 3         \* config.json maps 0..MaxItems items
MaxProcesses == 3     \* config.json asks for 1..MaxProcesses processes

(***************************************************************************)
(* Configuration (config.json, read by main).                              *)
(***************************************************************************)
log_interval == 2

Workers == {"w1", "w2"}

\* (min_price, max_price) pairs a worker may be configured with; the second
\* has the two ends the wrong way round, which the code does not reject.
PriceRanges == {<<2, 3>>, <<4, 2>>}

item_id == [w \in Workers |-> IF w = "w1" THEN 101 ELSE 102]

\* what getProductId returned in __init__
item_product_id == [w \in Workers |-> IF w = "w1" THEN "p0" ELSE "p9"]

\* the account cookie every worker is constructed with
cookie == "c0"

Tokens == {"T1", "T2"}
Prices == -1 .. MaxPrice

(***************************************************************************)
(* Values exchanged with the marketplace.                                  *)
(***************************************************************************)

\* an attribute of the item-container element holding a text
TextAttr(t) == [present |-> TRUE, val |-> t]
NoTextAttr == [present |-> FALSE, val |-> ""]

\* an attribute whose text is, or is not, the decimal form of an integer
IntAttr(n) == [present |-> TRUE, numeric |-> TRUE, val |-> n]
JunkAttr == [present |-> TRUE, numeric |-> FALSE, val |-> 0]
NoIntAttr == [present |-> FALSE, numeric |-> FALSE, val |-> 0]

NoResponse ==
    [transport |-> "none", container |-> FALSE,
     dataItemId |-> NoIntAttr, price |-> NoIntAttr,
     sellerId |-> NoTextAttr, productId |-> NoTextAttr,
     userAssetId |-> NoTextAttr]

Page(idAttr, priceAttr, seller, product, asset) ==
    [transport |-> "ok", container |-> TRUE,
     dataItemId |-> idAttr, price |-> priceAttr,
     sellerId |-> seller, productId |-> product, userAssetId |-> asset]

\* identifiers a quote may carry: (productId, sellerId, userAssetId)
QuoteIds == {<<"p1", "s1", "u1">>, <<"p2", "s2", "u2">>}

\* well-formed catalog pages for item i
GoodPages(i) ==
    {Page(IntAttr(i), IntAttr(p), TextAttr(q[2]), TextAttr(q[1]), TextAttr(q[3])) :
        p \in Prices, q \in QuoteIds}

\* a well-formed page with one thing wrong
Defects(g) ==
    {[g EXCEPT !.container = FALSE],
     [g EXCEPT !.dataItemId = NoIntAttr],
     [g EXCEPT !.dataItemId = JunkAttr],
     [g EXCEPT !.dataItemId = IntAttr(g.dataItemId.val + 1)],
     [g EXCEPT !.price = NoIntAttr],
     [g EXCEPT !.price = JunkAttr],
     [g EXCEPT !.sellerId = NoTextAttr],
     [g EXCEPT !.productId = NoTextAttr],
     [g EXCEPT !.userAssetId = NoTextAttr]}

\* the pages whose defects are exercised: those built on one in-range quote
DefectBase(i) ==
    {Page(IntAttr(i), IntAttr(2), TextAttr("s1"), TextAttr("p1"), TextAttr("u1"))}

\* everything the GET of the catalog page can produce
PollResponses(i) ==
    {[NoResponse EXCEPT !.transport = "error"]}
    \cup GoodPages(i)
    \cup UNION {Defects(g) : g \in DefectBase(i)}

NoInfo == [bestPrice |-> 0, sellerId |-> "", productId |-> "", userAssetId |-> ""]

Failed(m) == [raised |-> "", success |-> FALSE, msg |-> m, info |-> NoInfo]
Raised(e) == [raised |-> e, success |-> FALSE, msg |-> "", info |-> NoInfo]
Fetched(i) == [raised |-> "", success |-> TRUE, msg |-> "", info |-> i]

\* MarketAPI.getMarketItemInfo on the response r of the catalog GET.
\* itemContainer[...] of an absent attribute raises KeyError and int() of a
\* non-numeric text raises ValueError; only the GET and the price's int()
\* sit inside a try.
getMarketItemInfo(itemId, r) ==
    IF r.transport = "error" THEN Failed("Error when fetching item page.")
    ELSE IF ~r.container THEN Failed("Page had no item-container element.")
    ELSE IF ~r.dataItemId.present THEN Raised("KeyError")
    ELSE IF ~r.dataItemId.numeric THEN Raised("ValueError")
    ELSE IF r.dataItemId.val # itemId THEN Failed("Unexpected item id")
    ELSE IF ~r.price.present THEN Raised("KeyError")
    ELSE IF ~r.price.numeric THEN Failed("Unexpected price")
    ELSE IF ~r.sellerId.present THEN Raised("KeyError")
    ELSE IF ~r.productId.present THEN Raised("KeyError")
    ELSE IF ~r.userAssetId.present THEN Raised("KeyError")
    ELSE Fetched([bestPrice |-> r.price.val,
                  sellerId |-> r.sellerId.val,
                  productId |-> r.productId.val,
                  userAssetId |-> r.userAssetId.val])


(***************************************************************************)
(* checkAndSnipe's results: a status message and a status code.            *)
(***************************************************************************)
Msg(t, d, p) == [text |-> t, detail |-> d, price |-> p]
NoMsg == Msg("", "", 0)

Return(m, s) == [purchase |-> FALSE, message |-> m, status |-> s]
GoPurchase == [purchase |-> TRUE, message |-> NoMsg, status |-> ""]

\* checkAndSnipe after a failed fetch
FetchError(m) ==
    Return(Msg("Unexpected error when fetching item info", m, 0), "ERROR")

\* the decision without its lower end: anything positive up to max is bought
Evaluate_NoMin(i, min, max) ==
    IF i.bestPrice <= max /\ i.bestPrice > 0
    THEN GoPurchase
    ELSE Return(Msg("Best price is", "", i.bestPrice), "WAIT")

\* the decision with one message for every WAIT
Evaluate_OneMessage(i, min, max) ==
    IF i.bestPrice <= max /\ i.bestPrice > 0 /\ i.bestPrice >= min
    THEN GoPurchase
    ELSE Return(Msg("Best price is", "", i.bestPrice), "WAIT")

\* checkAndSnipe's decision on a fetched quote
Evaluate(i, min, max) ==
    IF i.bestPrice <= max /\ i.bestPrice > 0
    THEN IF i.bestPrice < min
         THEN Return(Msg("PRICE BELOW THRESHOLD!", "", i.bestPrice), "WAIT")
         ELSE GoPurchase
    ELSE Return(Msg("Best price is", "", i.bestPrice), "WAIT")

\* the arguments with the product id fetched at construction in place of
\* the quote's
PurchaseArgs_Stale(w, i) ==
    [productId |-> item_product_id[w], price |-> i.bestPrice,
     sellerId |-> i.sellerId, userAssetId |-> i.userAssetId]

\* the arguments checkAndSnipe hands to purchaseItem
PurchaseArgs(w, i) ==
    [productId |-> i.productId, price |-> i.bestPrice,
     sellerId |-> i.sellerId, userAssetId |-> i.userAssetId]

\* the POST with the token the session started with, whatever is cached
PurchasePost_FirstToken(a, token) ==
    [productId |-> a.productId, price |-> a.price, sellerId |-> a.sellerId,
     userAssetId |-> a.userAssetId, token |-> ""]

\* the POST purchaseItem sends: its arguments in the URL, the cached token
\* in the X-CSRF-TOKEN header
PurchasePost(a, token) ==
    [productId |-> a.productId, price |-> a.price, sellerId |-> a.sellerId,
     userAssetId |-> a.userAssetId, token |-> token]

\* what the purchase POST can produce: a transport failure, a response with
\* an X-CSRF-TOKEN header, or one without and some body
PurchaseBodies == {"nojson", "bought", "otherverb", "noverb"}

PurchaseResponses ==
    {[transport |-> "error", hasToken |-> FALSE, newToken |-> "", body |-> ""]}
    \cup {[transport |-> "ok", hasToken |-> TRUE, newToken |-> t, body |-> "denied"] :
            t \in Tokens}
    \cup {[transport |-> "ok", hasToken |-> FALSE, newToken |-> "", body |-> b] :
            b \in PurchaseBodies}

\* the reading that takes any TransactionVerb for a purchase
PurchaseResult_AnyVerb(r, p) ==
    IF r.body \in {"bought", "otherverb"}
    THEN Return(Msg("Item found", "Purchased!", p), "PURCHASED")
    ELSE IF r.body = "nojson"
    THEN Return(Msg("Item found", "No JSON response", p), "ERROR")
    ELSE Return(Msg("Item found", "Unable to purchase", p), "ERROR")

\* checkAndSnipe on the response purchaseItem returned
PurchaseResult(r, p) ==
    IF r.body = "bought"
    THEN Return(Msg("Item found", "Purchased!", p), "PURCHASED")
    ELSE IF r.body = "nojson"
    THEN Return(Msg("Item found", "No JSON response", p), "ERROR")
    ELSE Return(Msg("Item found", "Unable to purchase", p), "ERROR")

Abs(x) == IF x < 0 THEN -x ELSE x

\* the test with a strict comparison
ReportDue_Strict(t, last) == Abs(t - last) > log_interval

\* run's test for a throttled report
ReportDue(t, last) == Abs(t - last) >= log_interval

Note(k, m) == [kind |-> k, text |-> m.text, detail |-> m.detail]

(***************************************************************************)
(* State.                                                                  *)
(***************************************************************************)
VARIABLES
    now,          \* what time.time() returns
    pc,           \* each worker's position in run
    min_price,    \* ItemSnipe.min_price
    max_price,    \* ItemSnipe.max_price
    xsrf_token,   \* botClient.xsrf_token, the cached token
    checks,       \* ItemSnipe.checks
    sniped,       \* ItemSnipe.sniped
    last_update,  \* ItemSnipe.last_update
    info,         \* the quote checkAndSnipe holds in this cycle
    args,         \* the parameters of the running purchaseItem call
    depth,        \* purchaseItem frames on the stack
    message,      \* the message checkAndSnipe returned
    status,       \* the status checkAndSnipe returned
    exc,          \* the exception that ended the worker, if any
    session,      \* botClient: the MarketAPI object and the cookie in its session
    hist,         \* history: counts and marks the properties refer to
    resp,         \* history: the catalog response of this cycle
    requests,     \* history: the purchase POSTs sent in this cycle
    replies,      \* history: the responses to those POSTs
    calls,        \* history: purchaseItem calls made by checkAndSnipe in this cycle
    notes,        \* history: sendToDiscord calls made in this cycle
    elapsed       \* history: |time.time() - last_update| when the outcome was handled

\* the dispatcher: main and the processes it launches
VARIABLES
    conf,         \* what main read from config.json
    main_pc,      \* main's position
    main_exc,     \* the exception main died of, "" if none
    chunks,       \* the list main's comprehension built, one entry per process
    processes     \* main's list processes: the launched processSnipe runs

vars == <<now, pc, min_price, max_price, xsrf_token, checks, sniped, last_update,
          info, args, depth, message, status, exc, resp, requests, replies, calls,
          notes, elapsed, session, hist, conf, main_pc, main_exc, chunks,
          processes>>

dispatcher == <<conf, main_pc, main_exc, chunks, processes>>

config == <<min_price, max_price>>
metrics == <<checks, sniped, last_update>>
result == <<message, status>>
purchase == <<info, args, depth, requests, replies, calls>>
cycle == <<result, purchase, resp, notes, elapsed>>
worker == <<pc, config, xsrf_token, metrics, cycle, exc, session, hist>>

\* a MarketAPI object with its sessions, the cookie set by changeCookie
Client(n, c) == [id |-> n, cookie |-> c]
NoClient == Client(0, "")

\* a constructor that hands back the oldest client still held
NewClient_Reused(live) == CHOOSE n \in live : \A m \in live : n <= m

\* the object MarketAPI() returns: one that is not any worker's botClient
NewClient(live) ==
    CHOOSE n \in 1 .. Cardinality(Workers) + 1 :
        /\ n \notin live
        /\ \A m \in 1 .. n - 1 : m \in live

Clients == {session[v].id : v \in Workers}

\* history of worker w:
\*   bought   PURCHASED statuses checkAndSnipe has returned
\*   cycles   loop iterations completed since the last report was sent
\*   old      botClient when this cycle's poll began
\*   via      botClient whose check_session the cycle's last sendToDiscord used
\*   emit_at  time.time() when this cycle's report was sent
NoHist == [bought |-> 0, cycles |-> 0, old |-> 0, via |-> 0, emit_at |-> 0]

Via(w) == [hist EXCEPT ![w].via = session[w].id]
Completed(h, w) == [h EXCEPT ![w].cycles = @ + 1]

\* the worker leaves run with an uncaught exception
Crash(w, e) ==
    /\ pc' = [pc EXCEPT ![w] = "crashed"]
    /\ exc' = [exc EXCEPT ![w] = e]

Goto(w, l) ==
    /\ pc' = [pc EXCEPT ![w] = l]
    /\ UNCHANGED exc

InitOf(started) ==
    /\ now = 0
    /\ pc = [w \in Workers |-> IF w \in started THEN "banner" ELSE "idle"]
    /\ \E r \in PriceRanges :
          /\ min_price = [w \in Workers |-> r[1]]
          /\ max_price = [w \in Workers |-> r[2]]
    /\ xsrf_token = [w \in Workers |-> ""]
    /\ checks = [w \in Workers |-> 0]
    /\ sniped = [w \in Workers |-> 0]
    /\ last_update = [w \in Workers |-> 0]
    /\ info = [w \in Workers |-> NoInfo]
    /\ args = [w \in Workers |-> PurchaseArgs(w, NoInfo)]
    /\ depth = [w \in Workers |-> 0]
    /\ message = [w \in Workers |-> NoMsg]
    /\ status = [w \in Workers |-> ""]
    /\ exc = [w \in Workers |-> ""]
    /\ resp = [w \in Workers |-> NoResponse]
    /\ requests = [w \in Workers |-> <<>>]
    /\ replies = [w \in Workers |-> <<>>]
    /\ calls = [w \in Workers |-> <<>>]
    /\ notes = [w \in Workers |-> <<>>]
    /\ elapsed = [w \in Workers |-> 0]
    /\ session = [w \in Workers |->
                    IF w \in started
                    THEN Client(Cardinality({v \in started : item_id[v] <= item_id[w]}),
                                cookie)
                    ELSE NoClient]
    /\ hist = [w \in Workers |-> NoHist]

NoConf == [items |-> <<>>, max_processes |-> FALSE, processes |-> 0]

\* main is not part of the run
NoMain ==
    /\ conf = NoConf
    /\ main_pc = "idle"
    /\ main_exc = ""
    /\ chunks = <<>>
    /\ processes = <<>>

\* one worker, constructed and about to enter run
Init == InitOf({"w1"}) /\ NoMain

(***************************************************************************)
(* The clock.                                                              *)
(***************************************************************************)
Tick ==
    /\ now < MaxTime
    /\ now' = now + 1
    /\ UNCHANGED <<pc, config, xsrf_token, metrics, cycle, exc, session, hist>>
    /\ UNCHANGED dispatcher

(***************************************************************************)
(* ItemSnipe.run, up to the main loop: the banner, then the counters.      *)
(* sent is whether getCurrentUser's GET and the webhook POST went through. *)
(***************************************************************************)
Banner(w) ==
    /\ pc[w] = "banner"
    /\ \E sent \in BOOLEAN :
          IF sent
          THEN /\ notes' = [notes EXCEPT ![w] = Append(@, Note("banner", NoMsg))]
               /\ last_update' = [last_update EXCEPT ![w] = now - log_interval]
               /\ checks' = [checks EXCEPT ![w] = 0]
               /\ sniped' = [sniped EXCEPT ![w] = 0]
               /\ hist' = Via(w)
               /\ Goto(w, "poll")
          ELSE /\ Crash(w, "ConnectionError")
               /\ UNCHANGED <<notes, metrics, hist>>
    /\ UNCHANGED <<now, config, xsrf_token, result, purchase, resp, elapsed, session>>

(***************************************************************************)
(* checkAndSnipe, from its start to its return or to its call of           *)
(* purchaseItem: the catalog GET, getMarketItemInfo and the decision.      *)
(***************************************************************************)
Poll(w) ==
    /\ pc[w] = "poll"
    /\ checks[w] < MaxChecks
    /\ sniped[w] < MaxSniped
    /\ \E r \in PollResponses(item_id[w]) :
          LET g == getMarketItemInfo(item_id[w], r)
              d == IF g.success
                   THEN Evaluate(g.info, min_price[w], max_price[w])
                   ELSE FetchError(g.msg)
              a == PurchaseArgs(w, g.info)
          IN  /\ resp' = [resp EXCEPT ![w] = r]
              /\ info' = [info EXCEPT ![w] = g.info]
              /\ requests' = [requests EXCEPT ![w] = <<>>]
              /\ replies' = [replies EXCEPT ![w] = <<>>]
              /\ notes' = [notes EXCEPT ![w] = <<>>]
              /\ elapsed' = [elapsed EXCEPT ![w] = 0]
              /\ hist' = [hist EXCEPT ![w].old = session[w].id,
                                      ![w].via = 0, ![w].emit_at = 0]
              /\ IF g.raised # ""
                 THEN /\ Crash(w, g.raised)
                      /\ message' = [message EXCEPT ![w] = NoMsg]
                      /\ status' = [status EXCEPT ![w] = ""]
                      /\ calls' = [calls EXCEPT ![w] = <<>>]
                      /\ args' = [args EXCEPT ![w] = PurchaseArgs(w, NoInfo)]
                      /\ depth' = [depth EXCEPT ![w] = 0]
                 ELSE IF d.purchase
                 THEN /\ Goto(w, "purchase")
                      /\ message' = [message EXCEPT ![w] = NoMsg]
                      /\ status' = [status EXCEPT ![w] = ""]
                      /\ calls' = [calls EXCEPT ![w] = <<a>>]
                      /\ args' = [args EXCEPT ![w] = a]
                      /\ depth' = [depth EXCEPT ![w] = 1]
                 ELSE /\ Goto(w, "handle")
                      /\ message' = [message EXCEPT ![w] = d.message]
                      /\ status' = [status EXCEPT ![w] = d.status]
                      /\ calls' = [calls EXCEPT ![w] = <<>>]
                      /\ args' = [args EXCEPT ![w] = PurchaseArgs(w, NoInfo)]
                      /\ depth' = [depth EXCEPT ![w] = 0]
    /\ UNCHANGED <<now, config, xsrf_token, metrics, session>>

(***************************************************************************)
(* One frame of MarketAPI.purchaseItem: the POST and what follows it.      *)
(* A failed POST leaves req unbound, so the except clause's format(req)    *)
(* raises UnboundLocalError.  A response with an X-CSRF-TOKEN header       *)
(* replaces the cached token and calls purchaseItem again with the same    *)
(* parameters, which raises RecursionError once the stack is full.  Any    *)
(* other response returns to checkAndSnipe, which reads the purchase's     *)
(* outcome from it.                                                        *)
(***************************************************************************)
Recurse(r) == r.hasToken

\* the marketplace sends a token only to replace the one it was sent
Answers(token) == {r \in PurchaseResponses : r.hasToken => r.newToken # token}

purchaseItem(w) ==
    /\ pc[w] = "purchase"
    /\ \E r \in Answers(xsrf_token[w]) :
          /\ requests' = [requests EXCEPT ![w] =
                            Append(@, PurchasePost(args[w], xsrf_token[w]))]
          /\ replies' = [replies EXCEPT ![w] = Append(@, r)]
          /\ IF r.transport = "error"
             THEN /\ Crash(w, "UnboundLocalError")
                  /\ UNCHANGED <<xsrf_token, depth, result, hist>>
             ELSE IF Recurse(r)
             THEN /\ xsrf_token' = [xsrf_token EXCEPT ![w] = r.newToken]
                  /\ IF depth[w] < MaxRecursion
                     THEN /\ Goto(w, "purchase")
                          /\ depth' = [depth EXCEPT ![w] = @ + 1]
                     ELSE /\ Crash(w, "RecursionError")
                          /\ UNCHANGED depth
                  /\ UNCHANGED <<result, hist>>
             ELSE LET d == PurchaseResult(r, args[w].price)
                  IN  /\ Goto(w, "handle")
                      /\ message' = [message EXCEPT ![w] = d.message]
                      /\ status' = [status EXCEPT ![w] = d.status]
                      /\ depth' = [depth EXCEPT ![w] = 0]
                      /\ hist' = [hist EXCEPT ![w].bought =
                                     IF d.status = "PURCHASED" THEN @ + 1 ELSE @]
                      /\ UNCHANGED xsrf_token
    /\ UNCHANGED <<now, config, metrics, info, args, calls, resp, notes, elapsed,
                   session>>

(***************************************************************************)
(* run's handling of the status checkAndSnipe returned.                    *)
(***************************************************************************)
Incr(f, w) == [f EXCEPT ![w] = @ + 1]

\* a restart that sets the cookie again on the client it has
RestartSession_SameClient(w) ==
    /\ pc[w] = "handle"
    /\ status[w] = "ERROR"
    /\ elapsed' = [elapsed EXCEPT ![w] = Abs(now - last_update[w])]
    /\ session' = [session EXCEPT ![w] = Client(@.id, cookie)]
    /\ \E got \in BOOLEAN :
          IF got THEN Goto(w, "notify_error") ELSE Crash(w, "ConnectionError")
    /\ UNCHANGED <<now, config, xsrf_token, metrics, result, purchase, resp, notes,
                   hist>>

\* status ERROR: restartSession, whose changeCookie GETs the home page
RestartSession(w) ==
    /\ pc[w] = "handle"
    /\ status[w] = "ERROR"
    /\ elapsed' = [elapsed EXCEPT ![w] = Abs(now - last_update[w])]
    /\ session' = [session EXCEPT ![w] = Client(NewClient(Clients), cookie)]
    /\ xsrf_token' = [xsrf_token EXCEPT ![w] = ""]
    /\ \E got \in BOOLEAN :
          IF got THEN Goto(w, "notify_error") ELSE Crash(w, "ConnectionError")
    /\ UNCHANGED <<now, config, metrics, result, purchase, resp, notes, hist>>

\* an ERROR iteration that is not counted in checks
NotifyError_Uncounted(w) ==
    /\ pc[w] = "notify_error"
    /\ notes' = [notes EXCEPT ![w] = Append(@, Note("error", message[w]))]
    /\ \E sent \in BOOLEAN :
          IF sent
          THEN /\ hist' = Completed(Via(w), w)
               /\ Goto(w, "poll")
          ELSE /\ Crash(w, "ConnectionError")
               /\ hist' = Via(w)
    /\ UNCHANGED <<now, config, xsrf_token, metrics, result, purchase, resp, elapsed,
                   session>>

\* status ERROR, after restartSession: sendToDiscord, then checks += 1
NotifyError(w) ==
    /\ pc[w] = "notify_error"
    /\ notes' = [notes EXCEPT ![w] = Append(@, Note("error", message[w]))]
    /\ \E sent \in BOOLEAN :
          IF sent
          THEN /\ checks' = Incr(checks, w)
               /\ hist' = Completed(Via(w), w)
               /\ Goto(w, "poll")
          ELSE /\ Crash(w, "ConnectionError")
               /\ hist' = Via(w)
               /\ UNCHANGED checks
    /\ UNCHANGED <<now, config, xsrf_token, sniped, last_update, result, purchase,
                   resp, elapsed, session>>

\* status PURCHASED handled behind the throttle, as a WAIT is
NotifyPurchased_Throttled(w) ==
    /\ pc[w] = "handle"
    /\ status[w] = "PURCHASED"
    /\ elapsed' = [elapsed EXCEPT ![w] = Abs(now - last_update[w])]
    /\ IF ReportDue(now, last_update[w])
       THEN /\ notes' = [notes EXCEPT ![w] = Append(@, Note("purchased", message[w]))]
            /\ \E sent \in BOOLEAN :
                  IF sent
                  THEN /\ sniped' = Incr(sniped, w)
                       /\ checks' = Incr(checks, w)
                       /\ hist' = Completed(Via(w), w)
                       /\ Goto(w, "poll")
                  ELSE /\ Crash(w, "ConnectionError")
                       /\ hist' = Via(w)
                       /\ UNCHANGED <<sniped, checks>>
       ELSE /\ sniped' = Incr(sniped, w)
            /\ checks' = Incr(checks, w)
            /\ hist' = Completed(hist, w)
            /\ Goto(w, "poll")
            /\ UNCHANGED notes
    /\ UNCHANGED <<now, config, xsrf_token, last_update, result, purchase, resp,
                   session>>

\* status PURCHASED: sendToDiscord, then sniped += 1 and checks += 1
NotifyPurchased(w) ==
    /\ pc[w] = "handle"
    /\ status[w] = "PURCHASED"
    /\ elapsed' = [elapsed EXCEPT ![w] = Abs(now - last_update[w])]
    /\ notes' = [notes EXCEPT ![w] = Append(@, Note("purchased", message[w]))]
    /\ \E sent \in BOOLEAN :
          IF sent
          THEN /\ sniped' = Incr(sniped, w)
               /\ checks' = Incr(checks, w)
               /\ hist' = Completed(Via(w), w)
               /\ Goto(w, "poll")
          ELSE /\ Crash(w, "ConnectionError")
               /\ hist' = Via(w)
               /\ UNCHANGED <<sniped, checks>>
    /\ UNCHANGED <<now, config, xsrf_token, last_update, result, purchase, resp,
                   session>>

\* a report that also starts sniped afresh, as the class docstring has it
ReportWait_ResetSniped(w) ==
    /\ pc[w] = "handle"
    /\ status[w] = "WAIT"
    /\ elapsed' = [elapsed EXCEPT ![w] = Abs(now - last_update[w])]
    /\ IF ReportDue(now, last_update[w])
       THEN /\ notes' = [notes EXCEPT ![w] = Append(@, Note("report", message[w]))]
            /\ checks' = [checks EXCEPT ![w] = 0]
            /\ sniped' = [sniped EXCEPT ![w] = 0]
            /\ hist' = [hist EXCEPT ![w].via = session[w].id,
                                    ![w].emit_at = now, ![w].cycles = 0]
            /\ \E sent \in BOOLEAN :
                  IF sent THEN Goto(w, "stamp") ELSE Crash(w, "ConnectionError")
       ELSE /\ checks' = Incr(checks, w)
            /\ hist' = Completed(hist, w)
            /\ Goto(w, "poll")
            /\ UNCHANGED <<notes, sniped>>
    /\ UNCHANGED <<now, config, xsrf_token, last_update, result, purchase, resp,
                   session>>

\* status WAIT: the throttled report, up to the webhook POST
ReportWait(w) ==
    /\ pc[w] = "handle"
    /\ status[w] = "WAIT"
    /\ elapsed' = [elapsed EXCEPT ![w] = Abs(now - last_update[w])]
    /\ IF ReportDue(now, last_update[w])
       THEN /\ notes' = [notes EXCEPT ![w] = Append(@, Note("report", message[w]))]
            /\ checks' = [checks EXCEPT ![w] = 0]
            /\ hist' = [hist EXCEPT ![w].via = session[w].id,
                                    ![w].emit_at = now, ![w].cycles = 0]
            /\ \E sent \in BOOLEAN :
                  IF sent THEN Goto(w, "stamp") ELSE Crash(w, "ConnectionError")
       ELSE /\ checks' = Incr(checks, w)
            /\ hist' = Completed(hist, w)
            /\ Goto(w, "poll")
            /\ UNCHANGED notes
    /\ UNCHANGED <<now, config, xsrf_token, sniped, last_update, result, purchase,
                   resp, session>>

\* the end of a reporting iteration with last_update left as it was
Stamp_NoUpdate(w) ==
    /\ pc[w] = "stamp"
    /\ checks' = Incr(checks, w)
    /\ hist' = Completed(hist, w)
    /\ Goto(w, "poll")
    /\ UNCHANGED <<now, config, xsrf_token, sniped, last_update, cycle, session>>

\* status WAIT, after the report was sent: last_update, then checks += 1
Stamp(w) ==
    /\ pc[w] = "stamp"
    /\ last_update' = [last_update EXCEPT ![w] = now]
    /\ checks' = Incr(checks, w)
    /\ hist' = Completed(hist, w)
    /\ Goto(w, "poll")
    /\ UNCHANGED <<now, config, xsrf_token, sniped, cycle, session>>

Step(w) ==
    /\ \/ Banner(w)
       \/ Poll(w)
       \/ purchaseItem(w)
       \/ RestartSession(w)
       \/ NotifyError(w)
       \/ NotifyPurchased(w)
       \/ ReportWait(w)
       \/ Stamp(w)
    /\ UNCHANGED dispatcher

Next == Tick \/ \E w \in Workers : Step(w)

Spec == Init /\ [][Next]_vars

(***************************************************************************)
(* main: read config.json, cut the item list into slices, launch one       *)
(* process per slice.                                                      *)
(***************************************************************************)
StaggerDelay == 1

\* list(config["items"].items()) of a mapping of n items; item k is wanted
\* at prices [k, k + 1]
Items(n) == [k \in 1 .. n |-> [item_id |-> k, price_range |-> <<k, k + 1>>]]

Configs ==
    {[items |-> Items(n), max_processes |-> m, processes |-> p] :
        n \in 0 .. MaxItems, m \in BOOLEAN, p \in 1 .. MaxProcesses}

num_processes(c) == IF c.max_processes THEN Len(c.items) ELSE c.processes

Min(a, b) == IF a < b THEN a ELSE b

\* [items[x:x+size] for x in range(0, len(items), size)], size > 0
Slices(its, size) ==
    [c \in 1 .. (Len(its) + size - 1) \div size |->
        SubSeq(its, (c - 1) * size + 1, Min(c * size, Len(its)))]

\* a process running processSnipe(snipeItems, ...), before its first step
Process(its) ==
    [snipeItems |-> its,
     pc |-> IF its = <<>> THEN "done" ELSE "start",
     threads |-> <<>>]

\* threading.Thread(target=threadToSnipe, args=(cookie, item_id,
\* price_range[1], price_range[0], ...)) started at time t; threadToSnipe's
\* parameters are (cookie, item_id, max_price, min_price, ...)
Thread(it, t) ==
    [item_id |-> it.item_id,
     max_price |-> it.price_range[2],
     min_price |-> it.price_range[1],
     at |-> t]

InitMain ==
    /\ InitOf({})
    /\ conf \in Configs
    /\ main_pc = "split"
    /\ main_exc = ""
    /\ chunks = <<>>
    /\ processes = <<>>

MainCrash(e) ==
    /\ main_pc' = "crashed"
    /\ main_exc' = e
    /\ UNCHANGED chunks

\* lines 285-293: num_processes, process_size and the list comprehension.
\* // by zero raises ZeroDivisionError, range() with step 0 ValueError.
Split ==
    /\ main_pc = "split"
    /\ IF num_processes(conf) = 0
       THEN MainCrash("ZeroDivisionError")
       ELSE LET process_size == Len(conf.items) \div num_processes(conf)
            IN  IF process_size = 0
                THEN MainCrash("ValueError")
                ELSE /\ chunks' = Slices(conf.items, process_size)
                     /\ main_pc' = "launch"
                     /\ UNCHANGED main_exc
    /\ UNCHANGED <<now, worker, conf, processes>>

\* lines 293-297: one iteration of the for loop
Launch ==
    /\ main_pc = "launch"
    /\ processes' = Append(processes, Process(chunks[Len(processes) + 1]))
    /\ main_pc' = IF Len(processes') = Len(chunks) THEN "done" ELSE "launch"
    /\ UNCHANGED <<now, worker, conf, main_exc, chunks>>

(***************************************************************************)
(* processSnipe: start a thread for the next item, then sleep.             *)
(***************************************************************************)
StartThread(u) ==
    /\ processes[u].pc = "start"
    /\ LET p == processes[u]
           it == p.snipeItems[Len(p.threads) + 1]
       IN  processes' = [processes EXCEPT
                           ![u].threads = Append(@, Thread(it, now)),
                           ![u].pc = "sleep"]
    /\ UNCHANGED <<now, worker, conf, main_pc, main_exc, chunks>>

\* a loop without the sleep
Wake_NoSleep(u) ==
    /\ processes[u].pc = "sleep"
    /\ LET p == processes[u]
       IN  processes' = [processes EXCEPT
                           ![u].pc = IF Len(p.threads) < Len(p.snipeItems)
                                     THEN "start" ELSE "done"]
    /\ UNCHANGED <<now, worker, conf, main_pc, main_exc, chunks>>

\* time.sleep(1) returns once the delay has passed since it was called, which
\* was not before the thread was started
Wake(u) ==
    /\ processes[u].pc = "sleep"
    /\ LET p == processes[u]
       IN  /\ now >= p.threads[Len(p.threads)].at + StaggerDelay
           /\ processes' = [processes EXCEPT
                               ![u].pc = IF Len(p.threads) < Len(p.snipeItems)
                                         THEN "start" ELSE "done"]
    /\ UNCHANGED <<now, worker, conf, main_pc, main_exc, chunks>>

NextMain ==
    \/ Tick
    \/ Split
    \/ Launch
    \/ \E u \in DOMAIN processes : StartThread(u)
    \/ \E u \in DOMAIN processes : Wake(u)

SpecMain == InitMain /\ [][NextMain]_vars

(***************************************************************************)
(* Vocabulary of the properties.                                           *)
(***************************************************************************)
Last(q) == q[Len(q)]

\* the catalog response of w's cycle is a well-formed quote for w's item
Quoted(w) ==
    /\ resp[w].transport = "ok"
    /\ resp[w].container
    /\ resp[w].dataItemId.present /\ resp[w].dataItemId.numeric
    /\ resp[w].dataItemId.val = item_id[w]
    /\ resp[w].price.present /\ resp[w].price.numeric
    /\ resp[w].sellerId.present
    /\ resp[w].productId.present
    /\ resp[w].userAssetId.present

\* a response arrived, and it is not a well-formed quote for w's item
Malformed(w) == resp[w].transport = "ok" /\ ~Quoted(w)

bestPrice(w) == resp[w].price.val

InRange(w) ==
    /\ Quoted(w)
    /\ min_price[w] <= bestPrice(w)
    /\ bestPrice(w) <= max_price[w]
    /\ bestPrice(w) > 0

\* the purchase the quote of w's cycle describes
QuotedPurchase(w) ==
    [productId |-> resp[w].productId.val, price |-> bestPrice(w),
     sellerId |-> resp[w].sellerId.val, userAssetId |-> resp[w].userAssetId.val]

Target(q) ==
    [productId |-> q.productId, price |-> q.price, sellerId |-> q.sellerId,
     userAssetId |-> q.userAssetId]

\* run has dealt with the status of w's cycle
Handled(w) == status[w] # "" /\ pc[w] \notin {"handle", "notify_error"}

\* C1: a cycle whose quote is in [min_price, max_price] and positive makes
\* exactly one purchaseItem call, with the productId, bestPrice, sellerId and
\* userAssetId of that cycle's quote, and every POST of the cycle carries them.
C1_OnePurchaseCallWithQuote ==
    \A w \in Workers :
        InRange(w) =>
            /\ Len(calls[w]) = 1
            /\ calls[w][1] = QuotedPurchase(w)
            /\ \A k \in 1 .. Len(requests[w]) :
                  Target(requests[w][k]) = QuotedPurchase(w)

C1_Witness ==
    /\ InRange("w1")
    /\ pc["w1"] = "poll"
    /\ status["w1"] = "PURCHASED"
    /\ Len(requests["w1"]) = 1
    /\ requests["w1"][1].productId = "p2"

\* C2: a purchase is called for or requested only in a cycle whose quote is
\* in [min_price, max_price] and positive; a quote above max_price or not
\* positive leads to no purchase and to status WAIT.
C2_PurchaseOnlyInRange ==
    \A w \in Workers :
        /\ (calls[w] # <<>> \/ requests[w] # <<>>) => InRange(w)
        /\ (Quoted(w) /\ (bestPrice(w) > max_price[w] \/ bestPrice(w) <= 0)) =>
              /\ calls[w] = <<>>
              /\ requests[w] = <<>>
              /\ status[w] = "WAIT"

C2_Witness ==
    /\ Quoted("w1")
    /\ bestPrice("w1") > max_price["w1"]
    /\ pc["w1"] = "poll"
    /\ status["w1"] = "WAIT"
    /\ requests["w1"] = <<>>

\* C3 as claimed: every quote below min_price, the non-positive ones
\* included, leads to no purchase and to the 'below threshold' message.
C3_BelowMinIsBelowThreshold ==
    \A w \in Workers :
        (Quoted(w) /\ bestPrice(w) < min_price[w]) =>
            /\ calls[w] = <<>>
            /\ message[w].text = "PRICE BELOW THRESHOLD!"

\* C3 as amended: every quote below min_price leads to no purchase and to
\* status WAIT; the message is the 'below threshold' one when the price is
\* positive and at most max_price, and the generic one when it is not
\* positive.
C3_PositiveBelowMinIsBelowThreshold ==
    \A w \in Workers :
        (Quoted(w) /\ bestPrice(w) < min_price[w]) =>
            /\ calls[w] = <<>>
            /\ requests[w] = <<>>
            /\ status[w] = "WAIT"
            /\ (0 < bestPrice(w) /\ bestPrice(w) <= max_price[w]) =>
                  message[w].text = "PRICE BELOW THRESHOLD!"
            /\ bestPrice(w) <= 0 => message[w].text = "Best price is"

C3_Witness ==
    /\ Quoted("w1")
    /\ bestPrice("w1") = 1
    /\ min_price["w1"] = 2
    /\ pc["w1"] = "poll"
    /\ message["w1"].text = "PRICE BELOW THRESHOLD!"

\* C4: one purchaseItem call sends at most two POSTs, whatever the server
\* answers.
C4_AtMostTwoRequests ==
    \A w \in Workers : Len(requests[w]) <= 2

\* C5: every purchase POST carries the token cached when it is sent and the
\* parameters of the call; a response with a token replaces the cached token,
\* and the POST that follows is the same purchase with that token.  When the
\* first response carries token T2 and the second confirms the purchase, the
\* status is PURCHASED after exactly two POSTs, the second with T2.
C5_Sent(w) ==
    requests'[w] # requests[w] =>
        /\ Target(Last(requests'[w])) = calls[w][1]
        /\ Last(requests'[w]).token = xsrf_token[w]
        /\ Last(replies'[w]).hasToken =>
              xsrf_token'[w] = Last(replies'[w]).newToken

C5_Retried(w) ==
    \A k \in 1 .. Len(requests[w]) - 1 :
        /\ replies[w][k].hasToken
        /\ requests[w][k + 1] =
              [requests[w][k] EXCEPT !.token = replies[w][k].newToken]

C5_Scenario(w) ==
    /\ Len(replies[w]) = 2
    /\ replies[w][1].hasToken /\ replies[w][1].newToken = "T2"
    /\ replies[w][2].body = "bought"

C5_RetryCarriesNewToken ==
    /\ [][\A w \in Workers : pc[w] = "purchase" => C5_Sent(w)]_vars
    /\ [](\A w \in Workers :
            /\ C5_Retried(w)
            /\ C5_Scenario(w) =>
                  /\ status[w] = "PURCHASED"
                  /\ Len(requests[w]) = 2
                  /\ requests[w][2].token = "T2")

C5_Witness ==
    /\ C5_Scenario("w1")
    /\ pc["w1"] = "poll"
    /\ sniped["w1"] = 1
    /\ requests["w1"][1].token = ""

\* C6: a transport failure of the catalog GET or of the purchase POST ends
\* the cycle with status ERROR and leaves the worker running.
TransportFailed(w) ==
    \/ resp[w].transport = "error"
    \/ replies[w] # <<>> /\ Last(replies[w]).transport = "error"

C6_TransportFailureIsRecoverable ==
    \A w \in Workers :
        TransportFailed(w) =>
            /\ status[w] = "ERROR"
            /\ exc[w] # "UnboundLocalError"

\* C7: every malformed catalog response ends the cycle with status ERROR; no
\* exception leaves getMarketItemInfo.
C7_MalformedQuoteIsError ==
    \A w \in Workers :
        Malformed(w) => status[w] = "ERROR" /\ exc[w] \notin {"KeyError", "ValueError"}

\* C8: a WAIT outcome handled less than log_interval after last_update sends
\* no message; one handled log_interval or more after it sends exactly one,
\* the report.
C8_WaitReportsAreThrottled ==
    \A w \in Workers :
        (status[w] = "WAIT" /\ Handled(w)) =>
            /\ elapsed[w] < log_interval => notes[w] = <<>>
            /\ elapsed[w] >= log_interval =>
                  /\ Len(notes[w]) = 1
                  /\ notes[w][1].kind = "report"

C8_Witness ==
    /\ status["w1"] = "WAIT"
    /\ pc["w1"] = "poll"
    /\ elapsed["w1"] < log_interval
    /\ notes["w1"] = <<>>
    /\ checks["w1"] = 2

\* C9 as claimed: a PURCHASED outcome is notified only when log_interval has
\* passed since last_update.
C9_PurchasedIsThrottled ==
    \A w \in Workers :
        (status[w] = "PURCHASED" /\ notes[w] # <<>>) => elapsed[w] >= log_interval

\* C9 as amended: a PURCHASED outcome is notified at once, exactly once,
\* whatever the time since last_update; only the reports of WAIT outcomes
\* are throttled, a report being sent only for a WAIT outcome handled
\* log_interval or more after last_update.
C9_PurchasedBypassesThrottle ==
    \A w \in Workers :
        /\ (status[w] = "PURCHASED" /\ Handled(w)) =>
              /\ Len(notes[w]) = 1
              /\ notes[w][1].kind = "purchased"
        /\ \A k \in 1 .. Len(notes[w]) :
              notes[w][k].kind = "report" =>
                  status[w] = "WAIT" /\ elapsed[w] >= log_interval

C9_Witness ==
    /\ status["w1"] = "PURCHASED"
    /\ pc["w1"] = "poll"
    /\ elapsed["w1"] < log_interval
    /\ Len(notes["w1"]) = 1

\* C10: every cycle with status ERROR sends exactly one error notification
\* before the next poll.
C10_ErrorIsAlwaysNotified ==
    \A w \in Workers :
        (status[w] = "ERROR" /\ Handled(w)) =>
            /\ Len(notes[w]) = 1
            /\ notes[w][1].kind = "error"

(***************************************************************************)
(* Two workers of one process, each a thread running ItemSnipe.run, in any *)
(* interleaving.  The catalog answers with one of a few pages: a transport *)
(* failure, a quote of 2 and a quote of MaxPrice; the purchase endpoint    *)
(* fails in transport, hands out the token T1, buys or answers no verb.    *)
(***************************************************************************)
ThreadPages(i) ==
    {[NoResponse EXCEPT !.transport = "error"],
     Page(IntAttr(i), IntAttr(2), TextAttr("s1"), TextAttr("p1"), TextAttr("u1")),
     Page(IntAttr(i), IntAttr(MaxPrice), TextAttr("s2"), TextAttr("p2"), TextAttr("u2"))}

ThreadAnswers ==
    {r \in PurchaseResponses : /\ r.newToken \in {"", "T1"}
                               /\ r.body \in {"", "denied", "bought", "noverb"}}

InitThreads == InitOf(Workers) /\ NoMain

ThreadStep(w) ==
    /\ Step(w)
    /\ resp'[w] \in ThreadPages(item_id[w]) \cup {NoResponse}
    /\ \A k \in DOMAIN replies'[w] : replies'[w][k] \in ThreadAnswers
    /\ pc[w] = "poll" => checks[w] < MaxThreadPolls

NextThreads == \E w \in Workers : ThreadStep(w)

SpecThreads == InitThreads /\ [][NextThreads]_vars

\* what belongs to worker w
Own(w) ==
    <<pc[w], xsrf_token[w], checks[w], sniped[w], last_update[w], session[w],
      info[w], args[w], depth[w], message[w], status[w], exc[w], resp[w],
      requests[w], replies[w], calls[w], notes[w], elapsed[w], hist[w],
      min_price[w], max_price[w]>>

\* C11: a step of one worker, whatever it is, changes nothing that belongs
\* to another worker, and no two workers ever hold the same client, hence
\* the same sessions and token cache.
C11_WorkersAreIsolated ==
    /\ [][\A w \in Workers : \A v \in Workers \ {w} :
            Own(w)' # Own(w) => Own(v)' = Own(v)]_vars
    /\ [](\A w \in Workers : \A v \in Workers \ {w} :
            session[w].id # session[v].id)

C11_Witness ==
    /\ pc["w1"] = "crashed"
    /\ exc["w1"] = "UnboundLocalError"
    /\ xsrf_token["w1"] = "T1"
    /\ pc["w2"] = "poll"
    /\ status["w2"] = "ERROR"
    /\ checks["w2"] = 1
    /\ session["w2"].id = 3
    /\ xsrf_token["w2"] = ""

\* the threads started for the item it, as <<process, position>> pairs
Started(it) ==
    {s \in UNION {{<<u, j>> : j \in DOMAIN processes[u].threads} :
                     u \in DOMAIN processes} :
        processes[s[1]].threads[s[2]].item_id = it.item_id}

\* main has returned or died and every process has left its loop
Settled ==
    /\ main_pc \in {"done", "crashed"}
    /\ \A u \in DOMAIN processes : processes[u].pc = "done"

\* C12: when main has gone through its loop for a non-empty item mapping and
\* a configured count of at least 1, it has launched exactly the configured
\* number of processes (one per item under max_processes), and the sizes of
\* any two processes' item lists differ by at most one.
C12_ConfiguredUnitCount ==
    (/\ main_pc = "done"
     /\ conf.items # <<>>
     /\ num_processes(conf) >= 1)
    => /\ Len(processes) = num_processes(conf)
       /\ \A u \in DOMAIN processes : \A v \in DOMAIN processes :
             Len(processes[u].snipeItems) - Len(processes[v].snipeItems) <= 1

\* C13: once the dispatcher has settled, every configured item has exactly
\* one started worker, and that worker got the item's own minimum as
\* min_price and maximum as max_price.
C13_OneWorkerPerItem ==
    Settled =>
        \A k \in DOMAIN conf.items :
            /\ Cardinality(Started(conf.items[k])) = 1
            /\ \A s \in Started(conf.items[k]) :
                  LET t == processes[s[1]].threads[s[2]]
                  IN  /\ t.min_price = conf.items[k].price_range[1]
                      /\ t.max_price = conf.items[k].price_range[2]

\* C14: in every process the threads were started in the order of its item
\* list, one per item, and each start came at least the stagger delay after
\* the start before it.
C14_StartsAreStaggered ==
    \A u \in DOMAIN processes :
        LET p == processes[u]
        IN  /\ Len(p.threads) <= Len(p.snipeItems)
            /\ \A j \in DOMAIN p.threads :
                  /\ p.threads[j].item_id = p.snipeItems[j].item_id
                  /\ j > 1 => p.threads[j].at >= p.threads[j - 1].at + StaggerDelay

C14_Witness ==
    \E u \in DOMAIN processes :
        LET p == processes[u]
        IN  /\ Len(p.snipeItems) = MaxItems
            /\ Len(p.threads) = MaxItems
            /\ p.threads[2].at = p.threads[1].at + StaggerDelay
            /\ p.threads[1].item_id # p.threads[2].item_id

\* C15: the worker has no terminal state: a cycle that ended with a status
\* (WAIT, PURCHASED or ERROR) never leaves the worker out of run's loop.
C15_NoTerminalState ==
    \A w \in Workers : status[w] # "" => pc[w] # "crashed"

\* C16: after a cycle with status ERROR, before the next poll, botClient is
\* an object other than the one the cycle started with, its cached token is
\* empty and its session holds the worker's cookie; the error notification
\* goes out through the new client, so after the replacement.
Reported(w) == \E k \in 1 .. Len(notes[w]) : notes[w][k].kind = "report"

C16_ErrorReplacesSession ==
    \A w \in Workers :
        status[w] = "ERROR" =>
            /\ pc[w] \in {"notify_error", "poll"} =>
                  /\ session[w].id # hist[w].old
                  /\ session[w].cookie = cookie
                  /\ xsrf_token[w] = ""
            /\ notes[w] # <<>> =>
                  /\ hist[w].via = session[w].id
                  /\ hist[w].via # hist[w].old

C16_Witness ==
    /\ status["w1"] = "ERROR"
    /\ pc["w1"] = "poll"
    /\ Len(replies["w1"]) = 2
    /\ replies["w1"][1].hasToken
    /\ Len(notes["w1"]) = 1
    /\ xsrf_token["w1"] = ""

\* C17: the status is PURCHASED exactly when the purchase response parsed
\* and its TransactionVerb is 'bought'; every other purchase response gives
\* ERROR.
C17_PurchasedOnlyWhenBought ==
    \A w \in Workers :
        (replies[w] # <<>> /\ status[w] # "") =>
            /\ status[w] = "PURCHASED" <=> Last(replies[w]).body = "bought"
            /\ Last(replies[w]).body # "bought" => status[w] = "ERROR"

C17_Witness ==
    /\ pc["w1"] = "poll"
    /\ status["w1"] = "ERROR"
    /\ replies["w1"] # <<>>
    /\ Last(replies["w1"]).body = "otherverb"

C19_AfterReportChecksIsZero ==
    \A w \in Workers :
        (pc[w] = "poll" /\ status[w] = "WAIT" /\ Reported(w)) =>
            /\ checks[w] = 0
            /\ last_update[w] = hist[w].emit_at

\* C19 as amended: the report sets checks to 0; once the webhook POST has
\* returned, last_update is set to the time read then, which is not before
\* the time the report was sent, and the reporting iteration is counted: at
\* the start of the poll that follows checks is 1.
C19_AfterReportChecksIsOne ==
    \A w \in Workers :
        (status[w] = "WAIT" /\ Reported(w)) =>
            /\ pc[w] = "stamp" => checks[w] = 0
            /\ pc[w] = "poll" =>
                  /\ checks[w] = 1
                  /\ hist[w].emit_at <= last_update[w]
                  /\ last_update[w] <= now

C19_Witness ==
    /\ pc["w1"] = "poll"
    /\ status["w1"] = "WAIT"
    /\ Reported("w1")
    /\ checks["w1"] = 1
    /\ hist["w1"].emit_at < last_update["w1"]

\* C20: checks grows by one in every iteration of the loop, whatever the
\* status, and only a report sets it to 0: at the start of every poll it is
\* the number of iterations completed since the last report was sent, the
\* reporting one included.  Only the end of a reporting WAIT iteration
\* changes last_update.
C20_ChecksCountsIterations ==
    /\ [](\A w \in Workers : pc[w] = "poll" => checks[w] = hist[w].cycles)
    /\ [][\A w \in Workers :
            last_update'[w] # last_update[w] =>
                \/ pc[w] = "banner"
                \/ pc[w] = "stamp" /\ status[w] = "WAIT"]_vars

C20_Witness ==
    /\ pc["w1"] = "poll"
    /\ status["w1"] = "ERROR"
    /\ checks["w1"] = 2

=============================================================================
